---- MODULE Spec2Model ----
(***************************************************************************)
(* State-machine model of PulseSSOPlugin, the NetworkManager VPN plugin of *)
(* src/vpn-service/nm-pulse-sso-service.py.                                *)
(*                                                                         *)
(* The plugin is one object driven by a single GLib main loop: every D-Bus *)
(* method, timer callback and child-watch callback runs to completion, so  *)
(* each handler is one atomic action.  Handlers are written as operators   *)
(* over a record `s` of the object's fields (Self), composed the way the   *)
(* Python methods call one another, and committed to the variables.        *)
(*                                                                         *)
(* Representation of values:                                               *)
(*  - a gateway string is a sequence of tokens, the scheme being a token   *)
(*    of its own, so that startswith() and the https:// prefixing are      *)
(*    computed;  the empty sequence is the empty string;                   *)
(*  - self.gateway, self.cookie and self._last_failed_cookie are only ever *)
(*    None or a non-empty string and are only tested by truthiness, so     *)
(*    None is represented by the empty string;                             *)
(*  - a connection dict is the record of the two entries the code reads,   *)
(*    vpn.data.gateway and vpn.secrets.cookie ('' when missing);           *)
(*    self.pending_connection is a sequence of length 0 (None) or 1 and    *)
(*    keeps the gateway of the stored dict: the cookie of the stored dict  *)
(*    is read only by _do_connect, after NewSecrets has overwritten it     *)
(*    with the cookie it was given;                                        *)
(*  - the pending GLib timer sources of each callback are counted; a       *)
(*    *_timeout_id field is TRUE when it holds a source id and FALSE when  *)
(*    it is None.  A callback clears its id field as it starts, and the    *)
(*    field is only set to the source just added, so a set field always    *)
(*    names a pending source: the newest one;                              *)
(*  - pids are numbered up to renaming: the child self.proc tracks has pid  *)
(*    TrackedPid, the openconnect children that still run but are no       *)
(*    longer tracked are counted by `orphans` and have the pids            *)
(*    TrackedPid + 1 .. TrackedPid + orphans.                              *)
(***************************************************************************)
EXTENDS Integers, Sequences, FiniteSets, TLC

\* ---------------------------------------------------------------- bounds
\* At most this many openconnect children run at a time.
MaxPids == 2
\* Size of the id pool of each timer callback's GLib sources.
MaxSources == 2
\* Cap of _auth_failure_count, which the code lets grow without bound.
MaxAuthFailureCount == 4
\* Cap of _reconnection_retry_count, which the code lets grow without bound.
MaxRetryCount == 11

\* ------------------------------------------------------ program constants
\* self._auth_failure_count > 3 is fatal
AuthFailureLimit == 3
\* self._max_reconnection_retries
max_reconnection_retries == 10
\* self._reconnection_retry_interval (ms)
reconnection_retry_interval == 3000
\* self._secrets_timeout_ms
secrets_timeout_ms == 5000
\* delay of the restart timer (ms)
RestartDelay == 2000
\* delay of the direct auth scheduled after an auth failure (ms)
ReauthDelay == 1000
\* exit code of openconnect that means the cookie was rejected
AuthFailureExitCode == 2

\* ------------------------------------------------------------ input sets
NoneStr == ""
NoGateway == << >>

\* the gateways of the connections NetworkManager sends
GatewayInputs == {NoGateway, <<"vpn.example.com/emp">>}
\* the forms a gateway can have in a request a handler is given
GatewayForms ==
    GatewayInputs \cup {<<"https://", "vpn.example.com/emp">>, <<"http://", "vpn.example.com/emp">>}
Cookies == {"abc123", "def456"}
CookieInputs == Cookies \cup {NoneStr}
Connections == [gateway : GatewayInputs, cookie : CookieInputs]
Offers == [gateway : GatewayForms, cookie : CookieInputs]
\* the settings NeedSecrets is asked about: without and with a cookie
Settings == {c \in Connections : c.gateway = <<"vpn.example.com/emp">> /\ c.cookie # "def456"}

\* wait statuses handed to the child watch: normal exit with a code, or a signal
Statuses ==
    {[kind |-> "exited", val |-> 1], [kind |-> "exited", val |-> 2],
     [kind |-> "signaled", val |-> 15]}

\* what one run of the direct-auth callback meets after its retry check
AgentOutcomes == {"no_session", "agent_failed", "no_cookie", "cookie", "timeout", "error"}

FailRepeatedly == "Authentication failed repeatedly - please reconnect manually"
FailCookieExpired == "Authentication failed - cookie expired"
FailReconnect == "VPN reconnection failed - please reconnect manually"
FailRetries == "VPN reconnection failed after 10 attempts"
FailNoGateway == "No VPN gateway configured"

VARIABLES
    proc,                      \* self.proc: pid of the tracked child, 0 for None
    orphans,                   \* number of running children no longer tracked
    gateway,                   \* self.gateway
    cookie,                    \* self.cookie
    pending_connection,        \* self.pending_connection
    disconnect_requested,      \* self._disconnect_requested
    restart_timeout_id,        \* self._restart_timeout_id
    restart_sources,           \* pending GLib sources calling _do_restart
    auth_failure_count,        \* self._auth_failure_count
    reconnection_pending,      \* self._reconnection_pending
    reconnection_retry_count,  \* self._reconnection_retry_count
    last_failed_cookie,        \* self._last_failed_cookie
    direct_auth_timeout_id,    \* self._direct_auth_timeout_id
    direct_auth_sources,       \* pending GLib sources calling _launch_direct_auth
    secrets_timeout_id,        \* self._secrets_timeout_id
    secrets_sources,           \* pending GLib sources calling _on_secrets_timeout
    loop_running,              \* the GLib main loop has not been told to quit
    rejections,                \* history, kept under SpecHistory only: exits
                               \* classified as auth failures in a row
    auth_dialogs,              \* auth-dialog runs _launch_direct_auth waits for in
                               \* communicate(); seen under SpecBlocking only
    nm_state                   \* history, kept under SpecVisible only: the state of
                               \* the StateChanged signal emitted last

vars ==
    <<proc, orphans, gateway, cookie, pending_connection, disconnect_requested,
      restart_timeout_id, restart_sources, auth_failure_count, reconnection_pending,
      reconnection_retry_count, last_failed_cookie, direct_auth_timeout_id,
      direct_auth_sources, secrets_timeout_id, secrets_sources, loop_running,
      rejections, auth_dialogs, nm_state>>

\* The main loop of run() takes the next event: it has not been told to quit and
\* no handler is still running.  dbus-python and GLib call every handler on the
\* one thread of the loop, so a handler that waits keeps the others from running.
Dispatching_reentrant == loop_running

Dispatching == loop_running /\ auth_dialogs = 0

\* ------------------------------------------------------------ the object
\* The fields of the object as one record, with what the running handler has
\* done so far: the signals it emitted, the gateway and cookie it handed to
\* Popen (with self._last_failed_cookie as it was then), the gateways it sent to the auth-dialog, the timers it added with their
\* delays, the exception it raised.
Self ==
    [proc |-> proc, orphans |-> orphans, gateway |-> gateway, cookie |-> cookie,
     pending_connection |-> pending_connection,
     disconnect_requested |-> disconnect_requested,
     restart_timeout_id |-> restart_timeout_id, restart_sources |-> restart_sources,
     auth_failure_count |-> auth_failure_count,
     reconnection_pending |-> reconnection_pending,
     reconnection_retry_count |-> reconnection_retry_count,
     last_failed_cookie |-> last_failed_cookie,
     direct_auth_timeout_id |-> direct_auth_timeout_id,
     direct_auth_sources |-> direct_auth_sources,
     secrets_timeout_id |-> secrets_timeout_id, secrets_sources |-> secrets_sources,
     loop_running |-> loop_running, rejections |-> rejections,
     auth_dialogs |-> auth_dialogs, nm_state |-> nm_state,
     signals |-> << >>, launched |-> << >>, agent_calls |-> << >>,
     scheduled |-> << >>, cleared_secrets |-> FALSE, terminated |-> FALSE,
     raised |-> "", exc |-> FALSE]

\* The object as a handler has left it, seen by the handler that runs next.
Fresh(r) ==
    [r EXCEPT !.signals = << >>, !.launched = << >>, !.agent_calls = << >>,
              !.scheduled = << >>, !.cleared_secrets = FALSE, !.terminated = FALSE,
              !.raised = "", !.exc = FALSE]

\* The handler is over: the fields go back to the variables.
Commit(r) ==
    /\ proc' = r.proc
    /\ orphans' = r.orphans
    /\ gateway' = r.gateway
    /\ cookie' = r.cookie
    /\ pending_connection' = r.pending_connection
    /\ disconnect_requested' = r.disconnect_requested
    /\ restart_timeout_id' = r.restart_timeout_id
    /\ restart_sources' = r.restart_sources
    /\ auth_failure_count' = r.auth_failure_count
    /\ reconnection_pending' = r.reconnection_pending
    /\ reconnection_retry_count' = r.reconnection_retry_count
    /\ last_failed_cookie' = r.last_failed_cookie
    /\ direct_auth_timeout_id' = r.direct_auth_timeout_id
    /\ direct_auth_sources' = r.direct_auth_sources
    /\ secrets_timeout_id' = r.secrets_timeout_id
    /\ secrets_sources' = r.secrets_sources
    /\ loop_running' = r.loop_running
    /\ rejections' = r.rejections
    /\ auth_dialogs' = r.auth_dialogs
    /\ nm_state' = r.nm_state

\* ------------------------------------------------------------- signals
\* the value of nm_state where the history is not kept
NotKept == "-"

StateChanged(s, st) ==
    [s EXCEPT !.signals = Append(@, <<"StateChanged", st>>),
              !.nm_state = IF @ = NotKept THEN @ ELSE st]

Failure(s, reason) ==
    [s EXCEPT !.signals = Append(@, <<"Failure", reason>>)]

Ip4Config(s) ==
    [s EXCEPT !.signals = Append(@, <<"Ip4Config", "">>)]

\* -------------------------------------------------------------- strings
startswith(g, prefix) == Len(g) >= 1 /\ g[1] = prefix

\* The gateway as it would be stored without lines 207-208, 726-727, 780-781,
\* 992-993 and 512-513.
KeepGateway(g) == g

\* "Ensure gateway has https:// prefix"
NormalizeGateway(g) ==
    IF ~startswith(g, "http://") /\ ~startswith(g, "https://")
    THEN <<"https://">> \o g
    ELSE g

\* ------------------------------------------------------- GLib timer sources
\* GLib.timeout_add(delay, callback): one more pending source of `timer`
timeout_add(s, timer, delay) ==
    [s EXCEPT ![timer] = @ + 1, !.scheduled = Append(@, <<timer, delay>>)]

\* GLib.source_remove(id): the source named by the id field is dropped
source_remove(s, timer) == [s EXCEPT ![timer] = @ - 1]

HasRoom(sources) == sources < MaxSources

\* ------------------------------------------------------------ the tunnel
TrackedPid == 1

\* the pids of the children that run
LivePids(s) ==
    (IF s.proc # 0 THEN {s.proc} ELSE {}) \cup (TrackedPid + 1 .. TrackedPid + s.orphans)

\* _start_openconnect: Popen of openconnect with self.cookie and self.gateway,
\* then the child watch on its pid.  Popen raises when `ok` is false.  self.proc
\* is overwritten: a child it tracked runs on, untracked.
start_openconnect(s, ok) ==
    LET s1 == [s EXCEPT !.launched =
                   Append(@, [gateway |-> s.gateway, cookie |-> s.cookie,
                              last_failed_cookie |-> s.last_failed_cookie])]
    IN  IF ok /\ Cardinality(LivePids(s)) < MaxPids
        THEN [s1 EXCEPT !.proc = TrackedPid,
                        !.orphans = IF s.proc # 0 THEN @ + 1 ELSE @]
        ELSE [s1 EXCEPT !.exc = TRUE]

\* What Popen can do in a handler: succeed or raise, when the handler gets to it.
PopenResults(r) == IF r.launched # << >> THEN BOOLEAN ELSE {TRUE}

\* --------------------------------------------------------- direct auth timer
schedule_direct_auth(s, delay_ms) ==
    LET delay == IF delay_ms < 0 THEN 0 ELSE delay_ms
        s1 == IF s.direct_auth_timeout_id
              THEN source_remove(s, "direct_auth_sources")
              ELSE s
    IN  [timeout_add(s1, "direct_auth_sources", delay) EXCEPT
            !.direct_auth_timeout_id = TRUE]

cancel_direct_auth_timer(s) ==
    IF s.direct_auth_timeout_id
    THEN [source_remove(s, "direct_auth_sources") EXCEPT !.direct_auth_timeout_id = FALSE]
    ELSE s

cancel_secrets_timeout(s) ==
    IF s.secrets_timeout_id
    THEN [source_remove(s, "secrets_sources") EXCEPT !.secrets_timeout_id = FALSE]
    ELSE s

ensure_direct_auth(s, delay_ms) ==
    schedule_direct_auth(
        StateChanged([s EXCEPT !.reconnection_pending = TRUE], "Starting"), delay_ms)

\* _schedule_auth_retry as it would be if it gave up at the first failure.
schedule_auth_retry_giving_up(s, reason) ==
    Failure(StateChanged([s EXCEPT !.reconnection_pending = FALSE], "Stopped"),
            FailRetries)

schedule_auth_retry(s, reason) ==
    IF s.reconnection_retry_count >= max_reconnection_retries
    THEN Failure(StateChanged([s EXCEPT !.reconnection_pending = FALSE], "Stopped"),
                 FailRetries)
    ELSE schedule_direct_auth(s, reconnection_retry_interval)

\* ------------------------------------------------------------ _do_connect
\* _do_connect as it would be without the check of lines 210-213: the cookie
\* that was rejected last is started like any other.
do_connect_accepting_stale(s, connection, ok) ==
    LET s2 == [StateChanged(s, "Starting") EXCEPT
                  !.gateway = NormalizeGateway(connection.gateway),
                  !.cookie = connection.cookie,
                  !.disconnect_requested = FALSE,
                  !.reconnection_pending = FALSE,
                  !.reconnection_retry_count = 0]
        s3 == start_openconnect(s2, ok)
    IN  IF connection.gateway = NoGateway \/ connection.cookie = NoneStr
        THEN [s EXCEPT !.raised = "LaunchFailedError"]
        ELSE IF s3.exc
        THEN [StateChanged(s3, "Stopped") EXCEPT !.raised = "LaunchFailedError"]
        ELSE s3

\* _do_connect as it would be without lines 215-217 and 226-231: the failed
\* cookie stays remembered and the flags stay as they are.
do_connect_keeping_flags(s, connection, ok) ==
    LET s2 == [StateChanged(s, "Starting") EXCEPT
                  !.gateway = NormalizeGateway(connection.gateway),
                  !.cookie = connection.cookie]
        s3 == start_openconnect(s2, ok)
    IN  IF connection.gateway = NoGateway
        THEN [s EXCEPT !.raised = "LaunchFailedError"]
        ELSE IF connection.cookie = NoneStr
        THEN [s EXCEPT !.raised = "LaunchFailedError"]
        ELSE IF s.last_failed_cookie # NoneStr /\ connection.cookie = s.last_failed_cookie
        THEN ensure_direct_auth(s, 0)
        ELSE IF s3.exc
        THEN [StateChanged(s3, "Stopped") EXCEPT !.raised = "LaunchFailedError"]
        ELSE s3

do_connect(s, connection, ok) ==
    LET gw == NormalizeGateway(connection.gateway)
        s1 == IF s.last_failed_cookie # NoneStr /\ connection.cookie # s.last_failed_cookie
              THEN [s EXCEPT !.last_failed_cookie = NoneStr]
              ELSE s
        s2 == [StateChanged(s1, "Starting") EXCEPT
                  !.gateway = gw, !.cookie = connection.cookie,
                  !.disconnect_requested = FALSE,
                  !.reconnection_pending = FALSE,
                  !.reconnection_retry_count = 0]
        s3 == start_openconnect(s2, ok)
    IN  IF connection.gateway = NoGateway
        THEN [s EXCEPT !.raised = "LaunchFailedError"]
        ELSE IF connection.cookie = NoneStr
        THEN [s EXCEPT !.raised = "LaunchFailedError"]
        ELSE IF s.last_failed_cookie # NoneStr /\ connection.cookie = s.last_failed_cookie
        THEN ensure_direct_auth(s, 0)
        ELSE IF s3.exc
        THEN [StateChanged(s3, "Stopped") EXCEPT !.raised = "LaunchFailedError"]
        ELSE s3

\* self.pending_connection = connection
stored(connection) == <<[gateway |-> connection.gateway]>>

\* Connect as it would be if it kept the gateway as the request spells it.
Connect_keeping_gateway(s, connection, ok) ==
    IF connection.cookie = NoneStr
    THEN IF connection.gateway = NoGateway
         THEN [s EXCEPT !.raised = "LaunchFailedError"]
         ELSE schedule_direct_auth(
                  StateChanged(
                      [s EXCEPT !.pending_connection = stored(connection),
                                !.gateway = connection.gateway,
                                !.reconnection_pending = TRUE,
                                !.reconnection_retry_count = 0],
                      "Starting"),
                  0)
    ELSE do_connect(s, connection, ok)

\* Connect as it would be without the check of lines 722-723: the direct auth
\* is scheduled for whatever gateway the request names.
Connect_without_gateway_check(s, connection, ok) ==
    IF connection.cookie = NoneStr
    THEN schedule_direct_auth(
             StateChanged(
                 [s EXCEPT !.pending_connection = stored(connection),
                           !.gateway = NormalizeGateway(connection.gateway),
                           !.reconnection_pending = TRUE,
                           !.reconnection_retry_count = 0],
                 "Starting"),
             0)
    ELSE do_connect(s, connection, ok)

\* ---------------------------------------------------------------- Connect
ConnectBody(s, connection, ok) ==
    IF connection.cookie = NoneStr
    THEN IF connection.gateway = NoGateway
         THEN [s EXCEPT !.raised = "LaunchFailedError"]
         ELSE schedule_direct_auth(
                  StateChanged(
                      [s EXCEPT !.pending_connection = stored(connection),
                                !.gateway = NormalizeGateway(connection.gateway),
                                !.reconnection_pending = TRUE,
                                !.reconnection_retry_count = 0],
                      "Starting"),
                  0)
    ELSE do_connect(s, connection, ok)

Connect ==
    /\ Dispatching
    /\ HasRoom(direct_auth_sources)
    /\ \E connection \in Connections :
       \E ok \in PopenResults(ConnectBody(Self, connection, TRUE)) :
           Commit(ConnectBody(Self, connection, ok))

\* ----------------------------------------------------- ConnectInteractive
ConnectInteractiveBody(s, connection, ok) ==
    LET s1 == [s EXCEPT !.pending_connection = stored(connection)]
        stale == /\ connection.cookie # NoneStr
                 /\ s.last_failed_cookie # NoneStr
                 /\ connection.cookie = s.last_failed_cookie
        ck == IF stale THEN NoneStr ELSE connection.cookie
    IN  IF ck = NoneStr
        THEN IF connection.gateway = NoGateway
             THEN [s1 EXCEPT !.raised = "LaunchFailedError"]
             ELSE schedule_direct_auth(
                      StateChanged(
                          [s1 EXCEPT !.gateway = NormalizeGateway(connection.gateway),
                                     !.reconnection_pending = TRUE,
                                     !.reconnection_retry_count = 0],
                          "Starting"),
                      0)
        ELSE do_connect(s1, connection, ok)

ConnectInteractive ==
    /\ Dispatching
    /\ HasRoom(direct_auth_sources)
    /\ \E connection \in Connections :
       \E ok \in PopenResults(ConnectInteractiveBody(Self, connection, TRUE)) :
           Commit(ConnectInteractiveBody(Self, connection, ok))

\* ------------------------------------------------------------ NeedSecrets
\* NeedSecrets as it would be if it named the setting whose secrets are missing
\* and told the host to ask for them.
NeedSecrets_asking(s, settings) ==
    IF settings.cookie # NoneStr
    THEN s
    ELSE [s EXCEPT !.signals = Append(@, <<"SecretsRequired", "vpn">>)]

\* Logs and returns ''.
NeedSecretsBody(s, settings) == s

\* the string NeedSecrets returns: '' on both branches of line 808
NeedSecretsReturns(settings) ==
    IF settings.cookie # NoneStr THEN "" ELSE ""

NeedSecrets ==
    /\ Dispatching
    /\ \E settings \in Settings :
           Commit(NeedSecretsBody(Self, settings))

\* ------------------------------------------------------------- NewSecrets
\* NewSecrets as it would be without line 1011 and without the fallback of
\* lines 983-984: the pending connection is kept, and a request without a
\* gateway has none.
NewSecrets_keeping_pending(s, connection, ok) ==
    LET s0 == cancel_secrets_timeout(s)
        pend_gw == IF s0.pending_connection # << >>
                   THEN s0.pending_connection[1].gateway
                   ELSE NoGateway
    IN  IF connection.cookie = NoneStr
        THEN IF connection.gateway = NoGateway
             THEN Failure(StateChanged(s0, "Stopped"), FailNoGateway)
             ELSE schedule_direct_auth(
                      [s0 EXCEPT !.gateway = NormalizeGateway(connection.gateway),
                                 !.reconnection_pending = TRUE,
                                 !.reconnection_retry_count = 0],
                      0)
        ELSE IF s0.pending_connection # << >>
        THEN do_connect(s0, [gateway |-> pend_gw, cookie |-> connection.cookie], ok)
        ELSE IF s0.gateway # NoGateway
        THEN do_connect(s0, [gateway |-> s0.gateway, cookie |-> connection.cookie], ok)
        ELSE s0

NewSecretsBody(s, connection, ok) ==
    LET s0 == cancel_secrets_timeout(s)
        pend_gw == IF s0.pending_connection # << >>
                   THEN s0.pending_connection[1].gateway
                   ELSE NoGateway
        gw == IF connection.gateway = NoGateway THEN pend_gw ELSE connection.gateway
        \* self.pending_connection['vpn']['secrets'].update(vpn_secrets)
        updated == [gateway |-> pend_gw, cookie |-> connection.cookie]
        s2 == do_connect(s0, updated, ok)
        reauth_connection == [gateway |-> s0.gateway, cookie |-> connection.cookie]
    IN  IF connection.cookie = NoneStr
        THEN IF gw = NoGateway
             THEN Failure(StateChanged(s0, "Stopped"), FailNoGateway)
             ELSE schedule_direct_auth(
                      [s0 EXCEPT !.gateway = NormalizeGateway(gw),
                                 !.reconnection_pending = TRUE,
                                 !.reconnection_retry_count = 0],
                      0)
        ELSE IF s0.pending_connection # << >>
        THEN IF s2.raised # ""
             THEN s2
             ELSE [s2 EXCEPT !.pending_connection = << >>]
        ELSE IF s0.gateway # NoGateway
        THEN do_connect(s0, reauth_connection, ok)
        ELSE s0

NewSecrets ==
    /\ Dispatching
    /\ HasRoom(direct_auth_sources)
    /\ \E connection \in Connections :
       \E ok \in PopenResults(NewSecretsBody(Self, connection, TRUE)) :
           Commit(NewSecretsBody(Self, connection, ok))

\* ---------------------------------------------------- _on_secrets_timeout
\* The callback _schedule_secrets_timeout would register.  Nothing in the file
\* calls _schedule_secrets_timeout, so no secrets source is ever pending and the
\* callback is no action of the service; it is kept here as the function of the
\* object it would be.
\* _on_secrets_timeout as it would be without the checks of lines 491-497.
on_secrets_timeout_unchecked(s) ==
    schedule_direct_auth(
        [s EXCEPT !.secrets_timeout_id = FALSE,
                  !.gateway = NormalizeGateway(
                                  IF s.pending_connection # << >>
                                  THEN s.pending_connection[1].gateway
                                  ELSE NoGateway),
                  !.reconnection_pending = TRUE,
                  !.reconnection_retry_count = 0],
        0)

on_secrets_timeout(s) ==
    LET s1 == [s EXCEPT !.secrets_timeout_id = FALSE]
        gw == s1.pending_connection[1].gateway
    IN  IF s1.pending_connection = << >>
        THEN s1
        ELSE IF s1.proc # 0
        THEN s1
        ELSE IF gw = NoGateway
        THEN [Failure(StateChanged(s1, "Stopped"), FailNoGateway) EXCEPT
                 !.pending_connection = << >>]
        ELSE schedule_direct_auth(
                 [s1 EXCEPT !.gateway = NormalizeGateway(gw),
                            !.reconnection_pending = TRUE,
                            !.reconnection_retry_count = 0],
                 0)

\* ------------------------------------------------------------- Disconnect
\* proc.terminate(), proc.wait() and, after 5 s, proc.kill(): the child is gone
\* when the handler goes on.
terminate_proc(s) ==
    IF s.proc # 0
    THEN [s EXCEPT !.proc = 0, !.terminated = TRUE]
    ELSE s

\* _clear_cached_secrets: ClearSecrets() on NetworkManager's stored connection;
\* every failure of it is caught and logged.
clear_cached_secrets(s) == [s EXCEPT !.cleared_secrets = TRUE]

\* Disconnect as it would be if it took the branch of lines 830-834 always.
Disconnect_marking_only(s) ==
    StateChanged([s EXCEPT !.disconnect_requested = TRUE], "Stopped")

DisconnectBody(s) ==
    IF s.reconnection_pending
    THEN StateChanged([s EXCEPT !.disconnect_requested = TRUE], "Stopped")
    ELSE LET s1 == [s EXCEPT !.disconnect_requested = TRUE,
                             !.cookie = NoneStr,
                             !.gateway = NoGateway,
                             !.last_failed_cookie = NoneStr,
                             !.pending_connection = << >>]
             s2 == cancel_secrets_timeout(cancel_direct_auth_timer(s1))
             s3 == clear_cached_secrets(terminate_proc(s2))
         IN  [StateChanged(s3, "Stopped") EXCEPT !.loop_running = FALSE]

Disconnect ==
    /\ Dispatching
    /\ Commit(DisconnectBody(Self))

\* ----------------------------------------------------------- SetIp4Config
SetIp4ConfigBody(s) ==
    LET s1 == IF s.restart_timeout_id
              THEN [source_remove(s, "restart_sources") EXCEPT !.restart_timeout_id = FALSE]
              ELSE s
        s2 == [s1 EXCEPT !.auth_failure_count = 0,
                         !.reconnection_retry_count = 0,
                         !.last_failed_cookie = NoneStr]
        s3 == cancel_direct_auth_timer(s2)
    IN  StateChanged(Ip4Config(s3), "Started")

\* Called over D-Bus by the helper script that a running openconnect executes.
SetIp4Config ==
    /\ Dispatching
    /\ LivePids(Self) # {}
    /\ Commit(SetIp4ConfigBody(Self))

\* ------------------------------------------------------------- SetFailure
SetFailureBody(s) == StateChanged(s, "Stopped")

SetFailure ==
    /\ Dispatching
    /\ LivePids(Self) # {}
    /\ Commit(SetFailureBody(Self))

\* --------------------------------------------------- _on_openconnect_exit
\* "Convert wait status to exit code"
exit_code(status) ==
    IF status.kind = "exited" THEN status.val ELSE 0 - status.val

\* _on_openconnect_exit as it would be without the check of lines 315-318: the
\* exit of any child is taken for the exit of the tracked one.
on_openconnect_exit_of_any_pid(s, pid, status) ==
    LET s1 == [s EXCEPT !.proc = 0]
        a1 == [s1 EXCEPT !.cookie = NoneStr,
                         !.last_failed_cookie = IF s.cookie # NoneStr THEN s.cookie ELSE @,
                         !.auth_failure_count = @ + 1]
    IN  IF s.disconnect_requested
        THEN s1
        ELSE IF exit_code(status) = AuthFailureExitCode
        THEN IF a1.auth_failure_count > AuthFailureLimit
             THEN Failure(StateChanged(a1, "Stopped"), FailRepeatedly)
             ELSE IF a1.gateway # NoGateway
             THEN schedule_direct_auth(
                      StateChanged([a1 EXCEPT !.reconnection_pending = TRUE], "Starting"),
                      ReauthDelay)
             ELSE Failure(StateChanged(a1, "Stopped"), FailCookieExpired)
        ELSE IF s1.cookie # NoneStr /\ s1.gateway # NoGateway
        THEN [timeout_add(StateChanged(s1, "Starting"), "restart_sources", RestartDelay)
                 EXCEPT !.restart_timeout_id = TRUE]
        ELSE StateChanged(s1, "Stopped")

\* _on_openconnect_exit as it would be if it gave up at the third auth failure.
on_openconnect_exit_giving_up_early(s, pid, status) ==
    LET s1 == [s EXCEPT !.proc = 0]
        a1 == [s1 EXCEPT !.cookie = NoneStr,
                         !.last_failed_cookie = IF s.cookie # NoneStr THEN s.cookie ELSE @,
                         !.auth_failure_count = @ + 1]
    IN  IF s.proc = 0 \/ s.proc # pid
        THEN s
        ELSE IF s.disconnect_requested
        THEN s1
        ELSE IF exit_code(status) = AuthFailureExitCode
        THEN IF a1.auth_failure_count >= AuthFailureLimit
             THEN Failure(StateChanged(a1, "Stopped"), FailRepeatedly)
             ELSE schedule_direct_auth(
                      StateChanged([a1 EXCEPT !.reconnection_pending = TRUE], "Starting"),
                      ReauthDelay)
        ELSE IF s1.cookie # NoneStr /\ s1.gateway # NoGateway
        THEN [timeout_add(StateChanged(s1, "Starting"), "restart_sources", RestartDelay)
                 EXCEPT !.restart_timeout_id = TRUE]
        ELSE StateChanged(s1, "Stopped")

\* _on_openconnect_exit as it would be if an exit that is no auth failure ended
\* the session instead of adding the restart timer.
on_openconnect_exit_without_restart(s, pid, status) ==
    LET s1 == [s EXCEPT !.proc = 0]
        a1 == [s1 EXCEPT !.cookie = NoneStr,
                         !.last_failed_cookie = IF s.cookie # NoneStr THEN s.cookie ELSE @,
                         !.auth_failure_count = @ + 1]
    IN  IF s.proc = 0 \/ s.proc # pid
        THEN s
        ELSE IF s.disconnect_requested
        THEN s1
        ELSE IF exit_code(status) # AuthFailureExitCode
        THEN StateChanged(s1, "Stopped")
        ELSE IF a1.auth_failure_count > AuthFailureLimit
        THEN Failure(StateChanged(a1, "Stopped"), FailRepeatedly)
        ELSE IF a1.gateway # NoGateway
        THEN schedule_direct_auth(
                 StateChanged([a1 EXCEPT !.reconnection_pending = TRUE], "Starting"),
                 ReauthDelay)
        ELSE Failure(StateChanged(a1, "Stopped"), FailCookieExpired)

\* _on_openconnect_exit as it would be without lines 341-346: the cookie that
\* was refused stays the cookie and is not remembered.
on_openconnect_exit_keeping_cookie(s, pid, status) ==
    LET s1 == [s EXCEPT !.proc = 0]
        a1 == [s1 EXCEPT !.auth_failure_count = @ + 1]
    IN  IF s.proc = 0 \/ s.proc # pid
        THEN s
        ELSE IF s.disconnect_requested
        THEN s1
        ELSE IF exit_code(status) # AuthFailureExitCode
        THEN IF s1.cookie # NoneStr /\ s1.gateway # NoGateway
             THEN [timeout_add(StateChanged(s1, "Starting"), "restart_sources",
                               RestartDelay) EXCEPT !.restart_timeout_id = TRUE]
             ELSE StateChanged(s1, "Stopped")
        ELSE IF a1.auth_failure_count > AuthFailureLimit
        THEN Failure(StateChanged(a1, "Stopped"), FailRepeatedly)
        ELSE schedule_direct_auth(
                 StateChanged([a1 EXCEPT !.reconnection_pending = TRUE], "Starting"),
                 ReauthDelay)

on_openconnect_exit(s, pid, status) ==
    LET s1 == [s EXCEPT !.proc = 0]
        \* exit code 2
        failed_cookie == s.cookie
        a1 == [s1 EXCEPT !.cookie = NoneStr,
                         !.last_failed_cookie =
                             IF failed_cookie # NoneStr THEN failed_cookie ELSE @,
                         !.auth_failure_count = @ + 1]
        auth ==
            IF a1.auth_failure_count > AuthFailureLimit
            THEN Failure(StateChanged(a1, "Stopped"), FailRepeatedly)
            ELSE IF a1.gateway # NoGateway /\ ~a1.disconnect_requested
            THEN schedule_direct_auth(
                     StateChanged([a1 EXCEPT !.reconnection_pending = TRUE], "Starting"),
                     ReauthDelay)
            ELSE Failure(StateChanged(a1, "Stopped"), FailCookieExpired)
        \* any other exit code
        r1 == StateChanged(s1, "Starting")
        other ==
            IF s1.cookie # NoneStr /\ s1.gateway # NoGateway
            THEN [timeout_add(r1, "restart_sources", RestartDelay) EXCEPT
                     !.restart_timeout_id = TRUE]
            ELSE StateChanged(s1, "Stopped")
    IN  IF s.proc = 0 \/ s.proc # pid
        THEN s
        ELSE IF s.disconnect_requested
        THEN s1
        ELSE IF exit_code(status) = AuthFailureExitCode
        THEN auth
        ELSE other

\* History: how many exits in a row the handler has classified as auth failures
\* (exit code 2 of the tracked child, disconnect not requested) with no other
\* exit of a tracked child and no SetIp4Config in between; counted up to the
\* first one that is past the limit.
CountRejections(s, pid, status) ==
    IF s.proc = 0 \/ s.proc # pid \/ s.disconnect_requested
    THEN s.rejections
    ELSE IF exit_code(status) # AuthFailureExitCode
    THEN 0
    ELSE IF s.rejections > AuthFailureLimit
    THEN s.rejections
    ELSE s.rejections + 1

\* The child watch of a child that exits.
ExitBody(s, pid, status) ==
    on_openconnect_exit(
        [s EXCEPT !.orphans = IF pid # s.proc THEN @ - 1 ELSE @], pid, status)

OpenconnectExit ==
    /\ Dispatching
    /\ HasRoom(restart_sources)
    /\ HasRoom(direct_auth_sources)
    /\ auth_failure_count < MaxAuthFailureCount
    /\ \E pid \in LivePids(Self), status \in Statuses :
           Commit(ExitBody(Self, pid, status))

\* _do_restart as it would be without the check of lines 405-408.
do_restart_unchecked(s, ok) ==
    LET s1 == [s EXCEPT !.restart_timeout_id = FALSE]
        s2 == start_openconnect(s1, ok)
    IN  IF s1.disconnect_requested
        THEN s1
        ELSE IF s2.exc
        THEN StateChanged([s2 EXCEPT !.exc = FALSE], "Stopped")
        ELSE s2

\* ------------------------------------------------------------ _do_restart
do_restart(s, ok) ==
    LET s1 == [s EXCEPT !.restart_timeout_id = FALSE]
        s2 == start_openconnect(s1, ok)
    IN  IF s1.disconnect_requested
        THEN s1
        ELSE IF s1.cookie = NoneStr \/ s1.gateway = NoGateway
        THEN StateChanged(s1, "Stopped")
        ELSE IF s2.exc
        THEN StateChanged([s2 EXCEPT !.exc = FALSE], "Stopped")
        ELSE s2

\* A restart timer fires; its source is gone as the callback returns False.
RestartBody(s, ok) == do_restart([s EXCEPT !.restart_sources = @ - 1], ok)

DoRestart ==
    /\ Dispatching
    /\ restart_sources > 0
    /\ \E ok \in PopenResults(RestartBody(Self, TRUE)) :
           Commit(RestartBody(Self, ok))

\* ----------------------------------------------------- _launch_direct_auth
\* _launch_direct_auth as it would be without the check of lines 558-564: the
\* auth-dialog is run however many attempts were made.
launch_direct_auth_unbounded(s, outcome, c, ok) ==
    LET s1 == [s EXCEPT !.direct_auth_timeout_id = FALSE]
        s2 == [s1 EXCEPT !.reconnection_retry_count = @ + 1]
        s3 == [s2 EXCEPT !.agent_calls = Append(@, s2.gateway)]
    IN  IF ~s1.reconnection_pending
        THEN s1
        ELSE IF outcome = "no_session"
        THEN schedule_direct_auth(s2, reconnection_retry_interval)
        ELSE schedule_direct_auth(s3, reconnection_retry_interval)

\* _launch_direct_auth from line 645 on as it would be if it cleared the
\* reconnection state as soon as it has the cookie, before the tunnel is started.
auth_dialog_returned_clearing_first(s, outcome, c, ok) ==
    LET got == StateChanged([s EXCEPT !.cookie = c, !.last_failed_cookie = NoneStr,
                                      !.reconnection_pending = FALSE,
                                      !.reconnection_retry_count = 0,
                                      !.auth_failure_count = 0],
                            "Starting")
        started == start_openconnect(got, ok)
    IN  CASE outcome = "agent_failed" ->
                 schedule_direct_auth(s, reconnection_retry_interval)
          [] outcome = "timeout" ->
                 schedule_auth_retry(s, "Auth-dialog timed out")
          [] outcome = "no_cookie" ->
                 schedule_auth_retry(s, "No cookie in auth-dialog output")
          [] outcome = "cookie" ->
                 IF started.exc
                 THEN schedule_auth_retry([started EXCEPT !.exc = FALSE],
                                          "Failed to start openconnect")
                 ELSE cancel_direct_auth_timer(started)

\* _launch_direct_auth from line 645 on: communicate() has returned or timed out
\* in the state s.
auth_dialog_returned(s, outcome, c, ok) ==
    LET got == StateChanged([s EXCEPT !.cookie = c, !.last_failed_cookie = NoneStr],
                            "Starting")
        started == start_openconnect(got, ok)
    IN  CASE outcome = "agent_failed" ->
                 schedule_direct_auth(s, reconnection_retry_interval)
          [] outcome = "timeout" ->
                 schedule_auth_retry(s, "Auth-dialog timed out")
          [] outcome = "no_cookie" ->
                 schedule_auth_retry(s, "No cookie in auth-dialog output")
          [] outcome = "cookie" ->
                 IF started.exc
                 THEN schedule_auth_retry([started EXCEPT !.exc = FALSE],
                                          "Failed to start openconnect")
                 ELSE cancel_direct_auth_timer(
                          [started EXCEPT !.reconnection_pending = FALSE,
                                          !.reconnection_retry_count = 0,
                                          !.auth_failure_count = 0])

\* the outcomes of a direct auth that ran the auth-dialog
Communicated == {"agent_failed", "timeout", "no_cookie", "cookie"}

\* _launch_direct_auth as it would be without the check of lines 552-554: the
\* callback goes on whether a reconnection is pending or not.
launch_direct_auth_unasked(s, outcome, c, ok) ==
    LET s1 == [s EXCEPT !.direct_auth_timeout_id = FALSE]
        s2 == [s1 EXCEPT !.reconnection_retry_count = @ + 1]
        s3 == [s2 EXCEPT !.agent_calls = Append(@, s2.gateway)]
    IN  IF s2.reconnection_retry_count > max_reconnection_retries
        THEN Failure(StateChanged([s2 EXCEPT !.reconnection_pending = FALSE], "Stopped"),
                     FailReconnect)
        ELSE CASE outcome = "no_session" ->
                      schedule_direct_auth(s2, reconnection_retry_interval)
               [] outcome = "error" ->
                      schedule_auth_retry(s2, "Direct auth failed")
               [] outcome \in Communicated ->
                      auth_dialog_returned(s3, outcome, c, ok)

launch_direct_auth(s, outcome, c, ok) ==
    LET s1 == [s EXCEPT !.direct_auth_timeout_id = FALSE]
        s2 == [s1 EXCEPT !.reconnection_retry_count = @ + 1]
        \* the auth-dialog is run with self.gateway on its stdin and waited for
        s3 == [s2 EXCEPT !.agent_calls = Append(@, s2.gateway)]
    IN  IF ~s1.reconnection_pending
        THEN s1
        ELSE IF s2.reconnection_retry_count > max_reconnection_retries
        THEN Failure(StateChanged([s2 EXCEPT !.reconnection_pending = FALSE], "Stopped"),
                     FailReconnect)
        ELSE CASE outcome = "no_session" ->
                      schedule_direct_auth(s2, reconnection_retry_interval)
               [] outcome = "error" ->
                      schedule_auth_retry(s2, "Direct auth failed")
               [] outcome \in Communicated ->
                      auth_dialog_returned(s3, outcome, c, ok)

\* A direct-auth timer fires; its source is gone as the callback returns False.
DirectAuthBody(s, outcome, c, ok) ==
    launch_direct_auth([s EXCEPT !.direct_auth_sources = @ - 1], outcome, c, ok)

LaunchDirectAuth ==
    /\ Dispatching
    /\ direct_auth_sources > 0
    /\ reconnection_pending => reconnection_retry_count < MaxRetryCount
    /\ \E outcome \in AgentOutcomes :
       \E c \in (IF outcome = "cookie" THEN Cookies ELSE {NoneStr}) :
       \E ok \in PopenResults(DirectAuthBody(Self, outcome, c, TRUE)) :
           Commit(DirectAuthBody(Self, outcome, c, ok))

\* the object as __init__ leaves it
Constructed ==
    /\ proc = 0
    /\ orphans = 0
    /\ gateway = NoGateway
    /\ cookie = NoneStr
    /\ pending_connection = << >>
    /\ disconnect_requested = FALSE
    /\ restart_timeout_id = FALSE
    /\ restart_sources = 0
    /\ auth_failure_count = 0
    /\ reconnection_pending = FALSE
    /\ reconnection_retry_count = 0
    /\ last_failed_cookie = NoneStr
    /\ direct_auth_timeout_id = FALSE
    /\ direct_auth_sources = 0
    /\ secrets_timeout_id = FALSE
    /\ secrets_sources = 0
    /\ loop_running = TRUE
    /\ auth_dialogs = 0
    /\ rejections = 0

Init == Constructed /\ nm_state = NotKept

Next ==
    \/ Connect
    \/ ConnectInteractive
    \/ NeedSecrets
    \/ NewSecrets
    \/ Disconnect
    \/ SetIp4Config
    \/ SetFailure
    \/ OpenconnectExit
    \/ DoRestart
    \/ LaunchDirectAuth

Spec == Init /\ [][Next]_vars

\* ------------------------------------------------- the same, with history
\* The handlers as above; the two that end or extend a run of auth failures also
\* keep its length in the history variable `rejections`.
OpenconnectExitCounted ==
    /\ Dispatching
    /\ HasRoom(restart_sources)
    /\ HasRoom(direct_auth_sources)
    /\ auth_failure_count < MaxAuthFailureCount
    /\ \E pid \in LivePids(Self), status \in Statuses :
           Commit([ExitBody(Self, pid, status) EXCEPT
                      !.rejections = CountRejections(Self, pid, status)])

SetIp4ConfigCounted ==
    /\ Dispatching
    /\ LivePids(Self) # {}
    /\ Commit([SetIp4ConfigBody(Self) EXCEPT !.rejections = 0])

NextHistory ==
    \/ Connect
    \/ ConnectInteractive
    \/ NeedSecrets
    \/ NewSecrets
    \/ Disconnect
    \/ SetIp4ConfigCounted
    \/ SetFailure
    \/ OpenconnectExitCounted
    \/ DoRestart
    \/ LaunchDirectAuth

SpecHistory == Init /\ [][NextHistory]_vars

\* ------------------------------------ the same, with the state NM is told
\* The handlers as above; every StateChanged also leaves its state in the
\* history variable `nm_state`.  NetworkManager takes a plugin it has just
\* started to be in ServiceState.Init.
InitVisible == Constructed /\ nm_state = "Init"

SpecVisible == InitVisible /\ [][Next]_vars

\* ------------------------------------- the same, with the wait made visible
\* _launch_direct_auth runs the auth-dialog and waits for it in communicate()
\* (line 643, up to 300 s) before it returns to the main loop.  Here the callback
\* is taken in two steps, up to the wait and from the wait on, and the state
\* between them is one in which the auth-dialog runs.

\* the callback gets as far as running the auth-dialog
RunsAuthDialog(s) ==
    /\ s.reconnection_pending
    /\ s.reconnection_retry_count + 1 <= max_reconnection_retries

\* lines 550-643: the object as the callback has left it when it calls
\* communicate()
communicate(s) ==
    [s EXCEPT !.direct_auth_sources = @ - 1,
              !.direct_auth_timeout_id = FALSE,
              !.reconnection_retry_count = @ + 1,
              !.agent_calls = Append(@, s.gateway),
              !.auth_dialogs = @ + 1]

\* The callback returns without having run the auth-dialog: the reconnection is
\* no longer pending, the retries are used up, no graphical session is found or
\* Popen raises.
DirectAuthReturns ==
    /\ Dispatching
    /\ direct_auth_sources > 0
    /\ reconnection_pending => reconnection_retry_count < MaxRetryCount
    /\ \E outcome \in AgentOutcomes :
           /\ RunsAuthDialog(Self) => outcome \notin Communicated
           /\ Commit(DirectAuthBody(Self, outcome, NoneStr, TRUE))

\* The callback runs the auth-dialog and waits for it.
DirectAuthWaits ==
    /\ Dispatching
    /\ direct_auth_sources > 0
    /\ RunsAuthDialog(Self)
    /\ Commit(communicate(Self))

\* communicate() returns or times out, and the callback runs to its end.
DirectAuthResumes ==
    /\ loop_running
    /\ auth_dialogs > 0
    /\ \E outcome \in Communicated :
       \E c \in (IF outcome = "cookie" THEN Cookies ELSE {NoneStr}) :
       \E ok \in PopenResults(auth_dialog_returned(Self, outcome, c, TRUE)) :
           Commit([auth_dialog_returned(Self, outcome, c, ok) EXCEPT
                      !.auth_dialogs = @ - 1])

NextBlocking ==
    \/ Connect
    \/ ConnectInteractive
    \/ NeedSecrets
    \/ NewSecrets
    \/ Disconnect
    \/ SetIp4Config
    \/ SetFailure
    \/ OpenconnectExit
    \/ DoRestart
    \/ DirectAuthReturns
    \/ DirectAuthWaits
    \/ DirectAuthResumes

SpecBlocking == Init /\ [][NextBlocking]_vars

\* ======================================================================
\* Properties.  A handler's effect is read off its result record in the state
\* it starts from: the signals it emits, what it hands to Popen and to the
\* auth-dialog, the timers it adds.
\* ======================================================================
Range(seq) == {seq[i] : i \in 1..Len(seq)}
Emits(r, st) == <<"StateChanged", st>> \in Range(r.signals)
Fails(r) == \E x \in Range(r.signals) : x[1] = "Failure"
FailsWith(r, reason) == <<"Failure", reason>> \in Range(r.signals)
Schedules(r, timer, delay) == <<timer, delay>> \in Range(r.scheduled)
OnlyStarting(r) == r.signals = << <<"StateChanged", "Starting">> >>
Pair(l) == <<l.gateway, l.cookie>>
\* the argument of the last StateChanged a handler emitted, "" if it emitted none
LastState(r) ==
    LET changes == {i \in 1..Len(r.signals) : r.signals[i][1] = "StateChanged"}
    IN  IF changes = {}
        THEN ""
        ELSE r.signals[CHOOSE i \in changes : \A k \in changes : k <= i][2]

Rejected == [kind |-> "exited", val |-> AuthFailureExitCode]

\* the wait statuses the child watch can be given
ExitForms ==
    Statuses \cup {[kind |-> "exited", val |-> 0], [kind |-> "exited", val |-> 255],
                   [kind |-> "signaled", val |-> 9]}

\* P holds of whatever the handlers that can run now hand to Popen, for every
\* request and every cookie of the auth-dialog.
Launched(r, P(_)) == \A i \in 1..Len(r.launched) : P(r.launched[i])
EveryLaunch(P(_)) ==
    LET me == Self
    IN  /\ \A c \in Connections :
               /\ Launched(ConnectBody(me, c, TRUE), P)
               /\ Launched(ConnectInteractiveBody(me, c, TRUE), P)
               /\ Launched(NewSecretsBody(me, c, TRUE), P)
        /\ direct_auth_sources > 0 =>
               \A c \in Cookies : Launched(DirectAuthBody(me, "cookie", c, TRUE), P)
        /\ restart_sources > 0 => Launched(RestartBody(me, TRUE), P)

FreshCookie(l) == l.cookie # l.last_failed_cookie
Complete(l) == l.gateway # NoGateway /\ l.cookie # NoneStr

\* the requests that offer the cookie openconnect rejected last
StaleOffers == {c \in Offers : c.cookie # NoneStr /\ c.cookie = last_failed_cookie}

\* the gateway NewSecrets connects to when it is given a cookie
NewSecretsGateway ==
    IF pending_connection # << >> THEN pending_connection[1].gateway ELSE gateway

Reauthenticates(r) ==
    /\ r.launched = << >>
    /\ r.reconnection_pending
    /\ Schedules(r, "direct_auth_sources", 0)
    /\ r.direct_auth_timeout_id

C2Theorem ==
    (loop_running /\ proc # 0 /\ ~disconnect_requested) =>
        LET r == ExitBody(Self, proc, Rejected)
        IN  /\ r.auth_failure_count = auth_failure_count + 1
            /\ (r.auth_failure_count > 3) <=> (Emits(r, "Stopped") /\ Fails(r))
            /\ (r.auth_failure_count > 3) => r.scheduled = << >>
            /\ (r.auth_failure_count \in 1..3) =>
                   /\ OnlyStarting(r)
                   /\ Schedules(r, "direct_auth_sources", ReauthDelay)
                   /\ r.reconnection_pending

\* Three auth failures are counted and the tracked child is about to be refused
\* a fourth time: that exit is the fatal one.
C2Witness ==
    /\ loop_running /\ proc # 0 /\ ~disconnect_requested
    /\ auth_failure_count = 3
    /\ Emits(ExitBody(Self, proc, Rejected), "Stopped")
    /\ FailsWith(ExitBody(Self, proc, Rejected), FailRepeatedly)

\* ---------------------------------------------------------------- C3
\* C3 (a property of SpecHistory): at the fourth exit in a row that is
\* classified as an auth failure, with no SetIp4Config in between, the handler
\* emits Stopped as its last state and the Failure that says "repeatedly",
\* whichever way the cookies came.
C3Claim ==
    [][(rejections = AuthFailureLimit /\ rejections' = rejections + 1) =>
           /\ LastState(ExitBody(Self, proc, Rejected)) = "Stopped"
           /\ FailsWith(ExitBody(Self, proc, Rejected), FailRepeatedly)]_vars

\* ---------------------------------------------------------------- C4
\* C4: at most one source is pending for each of the three timers.
C4Claim ==
    /\ restart_sources <= 1
    /\ direct_auth_sources <= 1
    /\ secrets_sources <= 1

\* ---------------------------------------------------------------- C5
\* C5: when Disconnect returns, the last state emitted is Stopped and no restart,
\* direct-auth or secrets timer is pending.
C5Claim ==
    [][Disconnect =>
           /\ LastState(DisconnectBody(Self)) = "Stopped"
           /\ restart_sources' = 0
           /\ direct_auth_sources' = 0
           /\ secrets_sources' = 0]_vars

\* ---------------------------------------------------------------- C6
\* C6: a Disconnect that comes while reconnection is pending emits Stopped and
\* sets _disconnect_requested; while that flag is set, a restart timer or a
\* direct-auth timer that fires runs no auth-dialog and starts no tunnel.
C6Claim ==
    [][/\ (reconnection_pending /\ Disconnect) =>
              (LastState(DisconnectBody(Self)) = "Stopped" /\ disconnect_requested')
       /\ (disconnect_requested /\ DoRestart) =>
              (proc' = proc /\ RestartBody(Self, TRUE).launched = << >>)
       /\ (disconnect_requested /\ LaunchDirectAuth) =>
              /\ proc' = proc
              /\ \A outcome \in AgentOutcomes, c \in Cookies :
                     LET r == DirectAuthBody(Self, outcome, c, TRUE)
                     IN  r.agent_calls = << >> /\ r.launched = << >>]_vars

\* ---------------------------------------------------------------- C7
\* C7: when SetIp4Config returns, _auth_failure_count and
\* _reconnection_retry_count are 0, no restart timer is pending, and Ip4Config
\* then StateChanged(Started) have been emitted.
C7Claim ==
    [][SetIp4Config =>
           /\ auth_failure_count' = 0
           /\ reconnection_retry_count' = 0
           /\ restart_sources' = 0
           /\ SetIp4ConfigBody(Self).signals =
                  << <<"Ip4Config", "">>, <<"StateChanged", "Started">> >>]_vars

\* ---------------------------------------------------------------- C8
\* C8: whatever handler hands a gateway and a cookie to Popen (_do_connect from
\* Connect, ConnectInteractive or NewSecrets, _launch_direct_auth, _do_restart),
\* neither of the two is empty.
C8Theorem ==
    loop_running => EveryLaunch(Complete)

\* Both timers are pending, and either of them starts a tunnel when it fires.
C8Witness ==
    /\ loop_running
    /\ restart_sources > 0 /\ direct_auth_sources > 0
    /\ RestartBody(Self, TRUE).launched # << >>
    /\ DirectAuthBody(Self, "cookie", "abc123", TRUE).launched # << >>

\* ---------------------------------------------------------------- C9
ConnectsByAuth(conn, g) ==
    LET r1 == ConnectBody(Self, conn, TRUE)
    IN  /\ OnlyStarting(r1)
        /\ r1.pending_connection = stored(conn)
        /\ Schedules(r1, "direct_auth_sources", 0)
        /\ r1.direct_auth_sources = 1
        /\ \A c \in Cookies :
               LET r2 == DirectAuthBody(Fresh(r1), "cookie", c, TRUE)
               IN  /\ r2.agent_calls = <<g>>
                   /\ Len(r2.launched) = 1
                   /\ Pair(r2.launched[1]) = <<g, c>>

\* C9 as stated: a Connect with gateway g and no cookie emits Starting, stores
\* the request and schedules the direct auth with delay 0; when the auth-dialog
\* then returns cookie c, it was run for g and the tunnel is started with (g, c).
C9Original ==
    loop_running =>
        \A conn \in Offers :
            (conn.gateway # NoGateway /\ conn.cookie = NoneStr) =>
                ConnectsByAuth(conn, conn.gateway)

\* C9, amended: as stated, with the gateway as Connect stores it, which is g
\* with https:// put before it when g begins with neither http:// nor https://.
C9Amended ==
    loop_running =>
        \A conn \in Offers :
            (conn.gateway # NoGateway /\ conn.cookie = NoneStr) =>
                ConnectsByAuth(conn, NormalizeGateway(conn.gateway))

\* The tunnel runs on the cookie the auth-dialog returned for a Connect that
\* came without one.
C9Witness ==
    /\ loop_running
    /\ proc # 0
    /\ pending_connection = stored([gateway |-> <<"vpn.example.com/emp">>, cookie |-> NoneStr])
    /\ gateway = <<"https://", "vpn.example.com/emp">>
    /\ cookie = "abc123"
    /\ ~reconnection_pending
    /\ auth_failure_count = 0

\* ---------------------------------------------------------------- C10
\* C10: when the tracked child exits with a code other than 2, disconnect is not
\* requested and gateway and cookie are set, the handler emits Starting only,
\* adds the restart timer and changes no counter, however many such exits came
\* before; the timer, firing next, hands the same gateway and cookie to Popen.
C10Theorem ==
    (loop_running /\ proc # 0 /\ ~disconnect_requested
        /\ gateway # NoGateway /\ cookie # NoneStr) =>
        \A status \in ExitForms :
            exit_code(status) # AuthFailureExitCode =>
                LET r1 == ExitBody(Self, proc, status)
                    r2 == RestartBody(Fresh(r1), TRUE)
                IN  /\ OnlyStarting(r1)
                    /\ Schedules(r1, "restart_sources", RestartDelay)
                    /\ r1.restart_sources = restart_sources + 1
                    /\ r1.auth_failure_count = auth_failure_count
                    /\ r1.reconnection_retry_count = reconnection_retry_count
                    /\ Len(r2.launched) = 1
                    /\ Pair(r2.launched[1]) = <<gateway, cookie>>
                    /\ ~Emits(r2, "Stopped")
                    /\ r2.proc # 0

\* A tunnel that was restarted after such an exit has exited the same way again
\* and its restart timer is pending.
C10Witness ==
    /\ loop_running
    /\ proc = 0 /\ orphans = 0
    /\ restart_sources = 1 /\ restart_timeout_id
    /\ gateway # NoGateway /\ cookie # NoneStr
    /\ ~disconnect_requested /\ ~reconnection_pending
    /\ direct_auth_sources = 0
    /\ Pair(RestartBody(Self, TRUE).launched[1]) = <<gateway, cookie>>

\* ---------------------------------------------------------------- C11
\* the pids of children that run untracked, and one of a child long gone
StalePids == (LivePids(Self) \ {proc}) \cup {TrackedPid + MaxPids + 1}

\* C11: the exit of a child that is not the tracked one (nothing is tracked, or
\* another pid is) leaves every field as it was: no counter changes, no timer is
\* added, nothing is emitted, and the tracked child stays tracked.
C11Theorem ==
    loop_running =>
        \A pid \in StalePids, status \in ExitForms :
            on_openconnect_exit(Self, pid, status) = Self

\* A child runs untracked beside the tracked one while a restart timer is
\* pending, or beside none while the direct auth is pending.
C11Witness ==
    /\ loop_running /\ orphans > 0
    /\ ~disconnect_requested
    /\ \/ proc # 0 /\ restart_sources > 0
       \/ proc = 0 /\ reconnection_pending /\ direct_auth_sources > 0
    /\ \A status \in ExitForms : ExitBody(Self, TrackedPid + 1, status).proc = proc

\* ---------------------------------------------------------------- C12
\* What the callbacks that can run now come to, for every wait status, every
\* outcome of the auth-dialog and a Popen that succeeds: P holds of all of it.
EveryCallback(P(_)) ==
    LET me == Self
    IN  /\ \A pid \in LivePids(me), status \in ExitForms : P(ExitBody(me, pid, status))
        /\ restart_sources > 0 => P(RestartBody(me, TRUE))
        /\ direct_auth_sources > 0 =>
               \A outcome \in AgentOutcomes, c \in Cookies :
                   (outcome = "cookie" \/ c = "abc123") =>
                       P(DirectAuthBody(me, outcome, c, TRUE))

\* a callback gives up, and not because Popen raised
Fatal(r) == Emits(r, "Stopped") /\ r.launched = << >>
StoppedWithReason(r) == Fatal(r) => Fails(r)

\* C12: every fatal transition of a callback (auth failures past the limit, auth
\* retries exhausted, an exit or a restart that finds cookie or gateway missing)
\* emits Stopped together with a Failure that carries a reason.
C12Claim == loop_running => EveryCallback(StoppedWithReason)

\* ---------------------------------------------------------------- C13
SessionCleared(r) ==
    /\ r.gateway = NoGateway /\ r.cookie = NoneStr /\ r.pending_connection = << >>
    /\ r.restart_sources = 0 /\ r.direct_auth_sources = 0 /\ r.secrets_sources = 0

\* a callback gives up for auth failures past the limit or auth retries exhausted
GivesUp(r) ==
    \/ FailsWith(r, FailRepeatedly)
    \/ FailsWith(r, FailRetries)
    \/ FailsWith(r, FailReconnect)

ClearedWhenGivenUp(r) == GivesUp(r) => SessionCleared(r)

\* C13: when a callback has given up (auth failures past the limit, auth retries
\* exhausted, an exit with cookie or gateway missing), no timer is pending and
\* gateway, cookie and pending connection are all empty.
C13Claim ==
    loop_running =>
        /\ EveryCallback(ClearedWhenGivenUp)
        /\ \A pid \in LivePids(Self), status \in ExitForms :
               LET r == ExitBody(Self, pid, status)
               IN  Fatal(r) => SessionCleared(r)

\* a tracked child always has the credentials it was started with beside it
TrackedHasCredentials ==
    (proc # 0 /\ ~disconnect_requested) => (cookie # NoneStr /\ gateway # NoGateway)

\* ---------------------------------------------------------------- C14
\* the connect requests that bring a cookie openconnect has not just rejected
FreshOffers(r) ==
    {c \in Connections : c.gateway # NoGateway /\ c.cookie # NoneStr
                            /\ c.cookie # r.last_failed_cookie}

CountersResetWhenGivenUp(r) ==
    GivesUp(r) =>
        /\ r.auth_failure_count = 0
        /\ r.reconnection_retry_count = 0
        /\ \A c \in FreshOffers(r) :
               LET r1 == ConnectBody(Fresh(r), c, TRUE)
                   r2 == ExitBody(Fresh(r1), r1.proc, Rejected)
               IN  r1.proc # 0 => (OnlyStarting(r2) /\ r2.auth_failure_count = 1)

\* C14: when a callback has given up, _auth_failure_count and
\* _reconnection_retry_count are 0, so that the tunnel of the next Connect may be
\* refused for its cookie and is re-authenticated, as the first of three, instead
\* of being given up at once.
C14Claim == loop_running => EveryCallback(CountersResetWhenGivenUp)

\* ---------------------------------------------------------------- C15
\* the handler emits no signal but StateChanged(Starting)
StartingAtMost(r) == \A x \in Range(r.signals) : x = <<"StateChanged", "Starting">>

\* the auth-dialog run of a direct auth ends without a cookie, or Popen raises
\* for the cookie it returned
FailedRuns ==
    {[outcome |-> o, c |-> NoneStr, ok |-> TRUE] : o \in AgentOutcomes \ {"cookie"}}
        \cup {[outcome |-> "cookie", c |-> c, ok |-> FALSE] : c \in Cookies}

GaveUp(r) ==
    /\ Emits(r, "Stopped") /\ Fails(r)
    /\ ~r.reconnection_pending
    /\ r.scheduled = << >>

\* the handler retries: one direct-auth timer of 3 s added and nothing else
RetriesOnce(r) ==
    /\ r.scheduled = << <<"direct_auth_sources", reconnection_retry_interval>> >>
    /\ r.reconnection_pending
    /\ ~Emits(r, "Stopped") /\ ~Fails(r)

\* the outcomes after which lines 606-609 and 645-649 schedule the next direct
\* auth themselves
Rescheduling == {"no_session", "agent_failed"}

\* the direct auth numbered n since the count was reset
Attempt(P(_, _, _)) ==
    (loop_running /\ direct_auth_sources > 0 /\ reconnection_pending) =>
        LET me == Self
            n == reconnection_retry_count + 1
        IN  \A f \in FailedRuns : P(n, f, DirectAuthBody(me, f.outcome, f.c, f.ok))

AtMostTen(n, f, r) == r.agent_calls # << >> => n <= max_reconnection_retries
OneTimerBelow(n, f, r) == n < max_reconnection_retries => RetriesOnce(r)
GivenUpAtBound(n, f, r) == n >= max_reconnection_retries => GaveUp(r)
GivenUpAtOrAfterBound(n, f, r) ==
    n >= max_reconnection_retries =>
        IF n = max_reconnection_retries /\ f.outcome \in Rescheduling
        THEN /\ RetriesOnce(r)
             /\ \A g \in FailedRuns \cup {[outcome |-> "cookie", c |-> c, ok |-> TRUE] : c \in Cookies} :
                    LET r2 == DirectAuthBody(Fresh(r), g.outcome, g.c, g.ok)
                    IN  GaveUp(r2) /\ r2.agent_calls = << >> /\ r2.launched = << >>
        ELSE GaveUp(r)

\* C16 as stated: the auth-dialog is run in at most the first 10 direct auths
\* since the count was reset, a failed one before the tenth adds exactly one
\* direct-auth timer, and the tenth that fails gives up at once.
C16Original ==
    /\ Attempt(AtMostTen)
    /\ Attempt(OneTimerBelow)
    /\ Attempt(GivenUpAtBound)

\* C16 amended: the auth-dialog is run in at most the first 10 direct auths since
\* the count was reset, a failed one before the tenth adds exactly one
\* direct-auth timer, and the tenth that fails gives up at once when the
\* auth-dialog timed out, gave no cookie or could not be run, while after an
\* auth-dialog that exited nonzero or a missing graphical session it adds one
\* more timer, whose firing gives up without running the auth-dialog.
C16Amended ==
    /\ Attempt(AtMostTen)
    /\ Attempt(OneTimerBelow)
    /\ Attempt(GivenUpAtOrAfterBound)

\* Nine direct auths have failed since the reset and the tenth is pending.
C16Witness ==
    /\ loop_running
    /\ reconnection_pending /\ direct_auth_sources > 0
    /\ reconnection_retry_count = max_reconnection_retries - 1
    /\ RetriesOnce(DirectAuthBody(Self, "agent_failed", NoneStr, TRUE))
    /\ GaveUp(DirectAuthBody(Self, "timeout", NoneStr, TRUE))

\* ---------------------------------------------------------------- C17
\* C17: in no reachable state are a restart timer and a direct-auth timer both
\* pending.
C17Claim ==
    ~ /\ restart_timeout_id /\ restart_sources > 0
      /\ direct_auth_timeout_id /\ direct_auth_sources > 0

\* ---------------------------------------------------------------- C20
\* the requests that name no gateway, with any cookie or none
NoGatewayOffers == {c \in Offers : c.gateway = NoGateway}

\* C20: Connect with no gateway raises LaunchFailedError and changes nothing;
\* ConnectInteractive with no gateway raises LaunchFailedError and changes
\* nothing but pending_connection: no signal, no timer, no auth-dialog, no
\* openconnect.
C20Theorem ==
    loop_running =>
        LET me == Self
        IN  \A c \in NoGatewayOffers, ok \in BOOLEAN :
                /\ ConnectBody(me, c, ok) = [me EXCEPT !.raised = "LaunchFailedError"]
                /\ ConnectInteractiveBody(me, c, ok) =
                       [me EXCEPT !.raised = "LaunchFailedError",
                                  !.pending_connection = stored(c)]

\* ConnectInteractive was refused for its missing gateway while a tunnel runs.
C20Witness ==
    /\ loop_running
    /\ proc # 0 /\ gateway # NoGateway
    /\ pending_connection = stored([gateway |-> NoGateway, cookie |-> NoneStr])
    /\ \A c \in NoGatewayOffers : ConnectBody(Self, c, TRUE).raised = "LaunchFailedError"

\* ---------------------------------------------------------------- C18
\* C18: while the auth-dialog runs, the service can take a Disconnect and, with
\* a child alive, its exit or a SetIp4Config.
C18Claim ==
    auth_dialogs > 0 =>
        /\ ENABLED Disconnect
        /\ LivePids(Self) # {} =>
               /\ ENABLED SetIp4Config
               /\ (HasRoom(restart_sources) /\ HasRoom(direct_auth_sources)
                       /\ auth_failure_count < MaxAuthFailureCount)
                      => ENABLED OpenconnectExit

\* ---------------------------------------------------------------- C19
\* C19: at most one auth-dialog run is being waited for, and while it is, no
\* direct auth can start another, whatever timers are pending.
C19Theorem ==
    /\ auth_dialogs \in {0, 1}
    /\ auth_dialogs = 1 => ~ENABLED DirectAuthWaits

\* The auth-dialog runs while the reconnection is pending and a tunnel that was
\* started meanwhile has a restart timer pending.
C19Witness ==
    /\ auth_dialogs = 1
    /\ reconnection_pending
    /\ restart_sources > 0

\* ---------------------------------------------------------------- C21
\* C21: NeedSecrets returns '' for settings with and without a cookie, in every
\* state, and leaves the object as it was: no field changed, no timer added, no
\* signal emitted.
C21Theorem ==
    loop_running =>
        \A settings \in Settings :
            /\ NeedSecretsReturns(settings) = ""
            /\ NeedSecretsBody(Self, settings) = Self

\* NeedSecrets can be called while a reconnection is pending with its timer, and
\* while a tunnel runs.
C21Witness ==
    /\ ENABLED NeedSecrets
    /\ \/ reconnection_pending /\ direct_auth_sources > 0
       \/ proc # 0 /\ restart_sources > 0
    /\ \E a, b \in Settings : a.cookie = NoneStr /\ b.cookie # NoneStr

\* ---------------------------------------------------------------- C22
\* gateway, cookie, _last_failed_cookie and pending_connection are None and no
\* child is tracked
SessionGone(r) ==
    /\ r.gateway = NoGateway /\ r.cookie = NoneStr
    /\ r.last_failed_cookie = NoneStr /\ r.pending_connection = << >>
    /\ r.proc = 0

HasScheme(g) == startswith(g, "http://") \/ startswith(g, "https://")
Normalized(g) == g = NoGateway \/ HasScheme(g)

\* C23: self.gateway is None or begins with http:// or https://; Connect,
\* ConnectInteractive, NewSecrets and the secrets timeout leave it so for a
\* gateway of any form, a gateway without a scheme being stored with https://
\* before it; and the normalisation changes no gateway it has produced.
C23Theorem ==
    /\ Normalized(gateway)
    /\ loop_running =>
           LET me == Self
           IN  \A c \in Offers :
                   /\ Normalized(ConnectBody(me, c, TRUE).gateway)
                   /\ Normalized(ConnectInteractiveBody(me, c, TRUE).gateway)
                   /\ Normalized(NewSecretsBody(me, c, TRUE).gateway)
                   /\ Normalized(on_secrets_timeout(
                                     [me EXCEPT !.pending_connection = stored(c)]).gateway)
                   /\ (c.gateway # NoGateway /\ ~HasScheme(c.gateway) /\ c.cookie = NoneStr) =>
                          ConnectBody(me, c, TRUE).gateway = <<"https://">> \o c.gateway
    /\ \A g \in GatewayForms \ {NoGateway} :
           /\ HasScheme(NormalizeGateway(g))
           /\ NormalizeGateway(NormalizeGateway(g)) = NormalizeGateway(g)

\* A tunnel runs for a gateway that was given without a scheme.
C23Witness ==
    /\ proc # 0
    /\ gateway = <<"https://", "vpn.example.com/emp">>
    /\ cookie # NoneStr

\* ---------------------------------------------------------------- C24
\* C24 (a property of SpecVisible): when the tracked child exits with code 2
\* and disconnect is not requested, the cookie it ran with becomes _last_failed_cookie, self.cookie
\* is None and _auth_failure_count is one more; with the new count at most 3
\* the reconnection is pending, Starting is the one signal, the direct-auth
\* timer of 1 s is the one timer added and the restart timer is as it was.
C24Theorem ==
    (loop_running /\ proc # 0 /\ ~disconnect_requested) =>
        LET r == ExitBody(Self, proc, Rejected)
        IN  /\ cookie # NoneStr
            /\ r.last_failed_cookie = cookie
            /\ r.cookie = NoneStr
            /\ r.auth_failure_count = auth_failure_count + 1
            /\ r.proc = 0
            /\ r.auth_failure_count <= AuthFailureLimit =>
                   /\ r.reconnection_pending
                   /\ r.signals = << <<"StateChanged", "Starting">> >>
                   /\ r.nm_state = "Starting"
                   /\ r.scheduled = << <<"direct_auth_sources", ReauthDelay>> >>
                   /\ r.direct_auth_timeout_id
                   /\ r.restart_sources = restart_sources
                   /\ r.restart_timeout_id = restart_timeout_id

\* The first tunnel was refused for its cookie: the cookie is remembered, the
\* direct auth is scheduled and no restart timer is pending.
C24Witness ==
    /\ loop_running /\ ~disconnect_requested
    /\ proc = 0 /\ orphans = 0
    /\ cookie = NoneStr /\ last_failed_cookie = "abc123"
    /\ auth_failure_count = 1
    /\ reconnection_pending
    /\ direct_auth_timeout_id /\ direct_auth_sources = 1
    /\ restart_sources = 0
    /\ nm_state = "Starting"

\* ---------------------------------------------------------------- C25
\* the handler adds no timer and leaves the reconnection as it was
NothingScheduled(s, r) ==
    /\ r.scheduled = << >>
    /\ r.restart_sources = s.restart_sources
    /\ r.direct_auth_sources = s.direct_auth_sources
    /\ r.reconnection_pending = s.reconnection_pending

\* C25 (a property of SpecVisible): when the tracked child exits while
\* disconnect is requested, the handler adds no restart timer and no direct
\* auth, and the state NetworkManager was told last is Stopped when it returns.
C25Claim ==
    (loop_running /\ proc # 0 /\ disconnect_requested) =>
        LET me == Self
        IN  \A status \in ExitForms :
                LET r == ExitBody(me, proc, status)
                IN  /\ NothingScheduled(me, r)
                    /\ r.nm_state = "Stopped"

\* ---------------------------------------------------------------- C26
\* the callback gives the reconnection up: no openconnect, no auth-dialog, no
\* timer, no Starting
Abandons(r) ==
    /\ r.launched = << >> /\ r.agent_calls = << >>
    /\ r.scheduled = << >>
    /\ ~Emits(r, "Starting")

\* every callback that can run next in the state s gives the reconnection up
RetryAbandoned(s) ==
    /\ s.direct_auth_sources > 0 =>
           \A outcome \in AgentOutcomes, c \in Cookies :
               Abandons(DirectAuthBody(s, outcome, c, TRUE))
    /\ s.restart_sources > 0 => Abandons(RestartBody(s, TRUE))
    /\ s.proc # 0 => \A status \in ExitForms : Abandons(ExitBody(s, s.proc, status))

\* C26: Disconnect with a reconnection pending sets _disconnect_requested,
\* emits Stopped and changes nothing else, and the timer or exit callback that
\* runs next gives the reconnection up.
C26Claim ==
    (loop_running /\ reconnection_pending) =>
        LET me == Self
            r == DisconnectBody(me)
        IN  /\ r = [me EXCEPT !.disconnect_requested = TRUE,
                              !.signals = << <<"StateChanged", "Stopped">> >>]
            /\ RetryAbandoned(Fresh(r))

\* ---------------------------------------------------------------- C27
\* _do_connect is given the gateway g and the cookie c and takes them
Accepted(s, g, c) == g # NoGateway /\ c # NoneStr /\ c # s.last_failed_cookie

\* what the handler that took g and c has done
Connected(r, g, c) ==
    /\ Len(r.signals) >= 1 /\ r.signals[1] = <<"StateChanged", "Starting">>
    /\ r.gateway = NormalizeGateway(g)
    /\ r.cookie = c
    /\ r.last_failed_cookie = NoneStr
    /\ ~r.disconnect_requested
    /\ ~r.reconnection_pending
    /\ r.reconnection_retry_count = 0
    /\ Len(r.launched) = 1
    /\ Pair(r.launched[1]) = <<NormalizeGateway(g), c>>
    /\ r.raised = "" => (r.proc # 0 /\ OnlyStarting(r) /\ r.nm_state = "Starting")

\* C27 (a property of SpecVisible): Connect, ConnectInteractive and NewSecrets
\* that reach _do_connect with a gateway and a cookie other than the one
\* rejected last emit Starting, store
\* the normalised gateway and the cookie, leave _last_failed_cookie None and
\* _disconnect_requested, _reconnection_pending and the retry count reset, and
\* hand exactly that gateway and cookie to Popen, once.
C27Theorem ==
    loop_running =>
        LET me == Self
        IN  \A c \in Offers, ok \in BOOLEAN :
                LET r1 == ConnectBody(me, c, ok)
                    r2 == ConnectInteractiveBody(me, c, ok)
                    r3 == NewSecretsBody(me, c, ok)
                IN  /\ Accepted(me, c.gateway, c.cookie) =>
                           /\ Connected(r1, c.gateway, c.cookie)
                           /\ Connected(r2, c.gateway, c.cookie)
                    /\ Accepted(me, NewSecretsGateway, c.cookie) =>
                           Connected(r3, NewSecretsGateway, c.cookie)

\* A tunnel runs with a cookie taken after one was rejected and after a
\* Disconnect that met a pending reconnection: the failed cookie is forgotten
\* and the flags are reset, the failure count is not.
C27Witness ==
    /\ loop_running /\ proc # 0
    /\ cookie # NoneStr /\ gateway # NoGateway
    /\ last_failed_cookie = NoneStr
    /\ auth_failure_count > 0
    /\ ~disconnect_requested /\ ~reconnection_pending
    /\ reconnection_retry_count = 0

\* ---------------------------------------------------------------- C28
\* the object with a secrets timeout pending, as _schedule_secrets_timeout
\* would leave it
Armed(s) == [s EXCEPT !.secrets_timeout_id = TRUE, !.secrets_sources = 1]

PendingGateway(s) ==
    IF s.pending_connection # << >> THEN s.pending_connection[1].gateway ELSE NoGateway

\* the gateway NewSecrets takes for the direct auth when it is given no cookie
FallbackGateway(s, c) == IF c.gateway # NoGateway THEN c.gateway ELSE PendingGateway(s)

SecretsTimerCancelled(s, c, r) == ~r.secrets_timeout_id /\ r.secrets_sources = 0

\* the pending connection is completed: Popen gets its gateway and the cookie
\* supplied, and unless Popen raises a child is tracked and pending_connection
\* is None
Completes(s, c, r) ==
    /\ Len(r.launched) = 1
    /\ Pair(r.launched[1]) = <<NormalizeGateway(PendingGateway(s)), c.cookie>>
    /\ r.raised = "" => (r.proc # 0 /\ r.pending_connection = << >>)

WithoutCookie(s, c, r) ==
    c.cookie = NoneStr =>
        IF FallbackGateway(s, c) # NoGateway
        THEN /\ r.gateway = NormalizeGateway(FallbackGateway(s, c))
             /\ r.reconnection_pending
             /\ r.scheduled = << <<"direct_auth_sources", 0>> >>
             /\ r.launched = << >>
        ELSE /\ Emits(r, "Stopped") /\ FailsWith(r, FailNoGateway)
             /\ r.scheduled = << >> /\ r.launched = << >>

CompletesPending(s, c, r) ==
    (c.cookie # NoneStr /\ s.pending_connection # << >>) => Completes(s, c, r)

CompletesPendingUnlessRefused(s, c, r) ==
    (c.cookie # NoneStr /\ s.pending_connection # << >>) =>
        IF PendingGateway(s) = NoGateway
        THEN /\ r.raised = "LaunchFailedError"
             /\ r.launched = << >> /\ r.scheduled = << >> /\ r.signals = << >>
             /\ r.pending_connection = s.pending_connection
        ELSE IF c.cookie = s.last_failed_cookie
        THEN /\ Reauthenticates(r)
             /\ r.pending_connection = << >>
        ELSE Completes(s, c, r)

AsStated(s, c, r) ==
    /\ SecretsTimerCancelled(s, c, r)
    /\ CompletesPending(s, c, r)
    /\ WithoutCookie(s, c, r)

AsAmended(s, c, r) ==
    /\ SecretsTimerCancelled(s, c, r)
    /\ CompletesPendingUnlessRefused(s, c, r)
    /\ WithoutCookie(s, c, r)

\* NewSecrets in every state, with a secrets timeout pending, for every request
NewSecretsDoes(P(_, _, _)) ==
    loop_running =>
        LET s == Armed(Self)
        IN  \A c \in Offers, ok \in BOOLEAN :
                LET r == NewSecretsBody(s, c, ok)
                IN  P(s, c, r)

\* C28 as stated: NewSecrets cancels the secrets timeout; given a cookie with a
\* connection pending it hands the pending gateway and that cookie to Popen and
\* clears pending_connection; given no cookie it schedules the direct auth for
\* the gateway of the request or else of the pending connection, and with
\* neither it emits Stopped and a Failure.
C28Original == NewSecretsDoes(AsStated)

\* C28 amended: as stated, but the pending connection is completed only when
\* it names a gateway and the cookie is not the one rejected last; the cookie
\* rejected last gets the direct auth scheduled instead, pending_connection
\* cleared, and a pending connection without a gateway gets LaunchFailedError
\* and is kept.
C28Amended == NewSecretsDoes(AsAmended)

\* A connection is pending, stored by ConnectInteractive, after a cookie was
\* rejected: NewSecrets completes it with a new cookie and not with that one.
C28Witness ==
    /\ loop_running /\ proc = 0
    /\ PendingGateway(Self) # NoGateway
    /\ last_failed_cookie = "abc123"
    /\ Completes(Self, [gateway |-> NoGateway, cookie |-> "def456"],
                 NewSecretsBody(Self, [gateway |-> NoGateway, cookie |-> "def456"], TRUE))
    /\ NewSecretsBody(Self, [gateway |-> NoGateway, cookie |-> "abc123"], TRUE).launched = << >>

\* ---------------------------------------------------------------- C29
\* a connection is pending and nothing is under way that would complete it but
\* NewSecrets: no child, no reconnection pending
WaitsForSecrets ==
    /\ loop_running
    /\ PendingGateway(Self) # NoGateway
    /\ proc = 0
    /\ ~reconnection_pending

\* the secrets timeout fires in the state s
SecretsTimeoutBody(s) == on_secrets_timeout([s EXCEPT !.secrets_sources = @ - 1])

\* what the secrets timeout does when it fires: the direct auth for the pending
\* gateway when a connection is pending and no child is tracked, Stopped and a
\* Failure when that connection names no gateway, and otherwise nothing but
\* forgetting the timer
SecretsTimeoutFallsBack ==
    loop_running =>
        LET me == Self
            r == SecretsTimeoutBody(Armed(me))
        IN  IF pending_connection # << >> /\ proc = 0
            THEN IF PendingGateway(me) # NoGateway
                 THEN /\ Reauthenticates(r)
                      /\ r.gateway = NormalizeGateway(PendingGateway(me))
                      /\ r.reconnection_retry_count = 0
                      /\ r.signals = << >>
                 ELSE /\ Emits(r, "Stopped") /\ FailsWith(r, FailNoGateway)
                      /\ r.pending_connection = << >>
                      /\ r.scheduled = << >>
            ELSE r = me

Lapses(s) ==
    \A outcome \in AgentOutcomes, c \in Cookies :
        DirectAuthBody(s, outcome, c, TRUE) =
            [s EXCEPT !.direct_auth_sources = @ - 1, !.direct_auth_timeout_id = FALSE]

\* the handler that ended with r has left the direct-auth timer pending and no
\* reconnection, and the timer does nothing when the auth-dialog would have
\* given a cookie
LapsesAfter(r) ==
    LET s == Fresh(r)
    IN  /\ s.direct_auth_sources > 0
        /\ ~s.reconnection_pending
        /\ DirectAuthBody(s, "cookie", "abc123", TRUE) =
               [s EXCEPT !.direct_auth_sources = @ - 1, !.direct_auth_timeout_id = FALSE]

\* C30: a direct-auth timer that fires with no reconnection pending runs no
\* auth-dialog, starts no openconnect, emits nothing and changes no counter;
\* and that is how it fires after Connect, ConnectInteractive or NewSecrets
\* have started a tunnel with a cookie of their own and left it pending.
C30Theorem ==
    loop_running =>
        LET me == Self
        IN  /\ (direct_auth_sources > 0 /\ ~reconnection_pending) => Lapses(me)
            /\ direct_auth_sources > 0 =>
                   \A c \in Connections :
                       /\ Accepted(me, c.gateway, c.cookie) =>
                              /\ LapsesAfter(ConnectBody(me, c, TRUE))
                              /\ LapsesAfter(ConnectInteractiveBody(me, c, TRUE))
                       /\ Accepted(me, NewSecretsGateway, c.cookie) =>
                              LapsesAfter(NewSecretsBody(me, c, TRUE))

\* A tunnel runs, started by a Connect with a cookie, and the direct-auth timer
\* of the Connect before it is still pending.
C30Witness ==
    /\ loop_running /\ proc # 0 /\ cookie # NoneStr
    /\ ~reconnection_pending
    /\ direct_auth_timeout_id /\ direct_auth_sources = 1
    /\ Lapses(Self)

\* ---------------------------------------------------------------- C31
\* Popen starts the child: it does not raise, and the child has a pid
PopenSucceeds(s, ok) == ok /\ Cardinality(LivePids(s)) < MaxPids

\* the reconnection state of s is kept in r
ReconnectionKept(s, r) ==
    /\ r.reconnection_pending
    /\ r.reconnection_retry_count = s.reconnection_retry_count
    /\ r.auth_failure_count = s.auth_failure_count

ReconnectionCleared(r) ==
    /\ ~r.reconnection_pending
    /\ r.reconnection_retry_count = 0
    /\ r.auth_failure_count = 0

\* C31 (a property of SpecBlocking): when the auth-dialog the callback waits for
\* returns a cookie, _reconnection_pending, _reconnection_retry_count and
\* _auth_failure_count are cleared if Popen starts the tunnel, and then a child
\* is tracked and no direct-auth timer is pending; if Popen raises, below the
\* retry bound they stay as they are and one direct-auth timer is scheduled for
\* the retry interval, and at the bound Stopped and a Failure are emitted.
C31Theorem ==
    (loop_running /\ auth_dialogs > 0) =>
        \A c \in Cookies, ok \in BOOLEAN :
            LET me == Self
                r == auth_dialog_returned(me, "cookie", c, ok)
            IN  /\ me.reconnection_pending
                /\ Pair(r.launched[1]) = <<me.gateway, c>>
                /\ IF PopenSucceeds(me, ok)
                   THEN /\ ReconnectionCleared(r)
                        /\ r.proc # 0
                        /\ r.direct_auth_sources = 0 /\ ~r.direct_auth_timeout_id
                        /\ OnlyStarting(r)
                   ELSE IF me.reconnection_retry_count < max_reconnection_retries
                   THEN /\ ReconnectionKept(me, r)
                        /\ r.proc = me.proc
                        /\ r.scheduled =
                               << <<"direct_auth_sources", reconnection_retry_interval>> >>
                        /\ r.direct_auth_sources = 1 /\ r.direct_auth_timeout_id
                        /\ OnlyStarting(r)
                   ELSE /\ LastState(r) = "Stopped"
                        /\ FailsWith(r, FailRetries)
                        /\ r.scheduled = << >>

\* the auth-dialog runs after the tunnel was refused for its cookie; were Popen
\* to raise now, the retry would be scheduled and the failure still counted
C31Witness ==
    /\ loop_running /\ auth_dialogs > 0
    /\ auth_failure_count > 0
    /\ reconnection_retry_count < max_reconnection_retries
    /\ LET r == auth_dialog_returned(Self, "cookie", "abc123", FALSE)
       IN  r.reconnection_pending /\ r.direct_auth_sources = 1
               /\ r.auth_failure_count = auth_failure_count

\* ---------------------------------------------------------------- C32
\* the handler hands nothing to Popen while a child is tracked
LaunchesUntracked(r) == r.launched # << >> => proc = 0

\* C32: at most one openconnect child runs at any time, and every handler that
\* starts the tunnel (_do_connect from Connect, ConnectInteractive or NewSecrets,
\* _launch_direct_auth with a cookie, _do_restart) gets to Popen only when
\* self.proc tracks no child.
C32Claim ==
    /\ Cardinality(LivePids(Self)) <= 1
    /\ loop_running =>
           LET me == Self
           IN  /\ \A c \in Connections :
                      /\ LaunchesUntracked(ConnectBody(me, c, TRUE))
                      /\ LaunchesUntracked(ConnectInteractiveBody(me, c, TRUE))
                      /\ LaunchesUntracked(NewSecretsBody(me, c, TRUE))
               /\ direct_auth_sources > 0 =>
                      LaunchesUntracked(DirectAuthBody(me, "cookie", "abc123", TRUE))
               /\ restart_sources > 0 => LaunchesUntracked(RestartBody(me, TRUE))

\* ---------------------------------------------------------------- C33
\* C33: when Disconnect returns, whatever state it was called in, with a
\* reconnection pending or not, self.proc tracks no child and no openconnect
\* child runs.
C33Claim ==
    loop_running =>
        LET r == DisconnectBody(Self)
        IN  /\ LastState(r) = "Stopped"
            /\ r.proc = 0
            /\ LivePids(r) = {}

\* ---------------------------------------------------------------- C34
\* the handler starts no tunnel, runs no auth-dialog and emits neither Starting
\* nor Started
Quiet(r) ==
    /\ r.launched = << >>
    /\ r.agent_calls = << >>
    /\ ~Emits(r, "Starting")
    /\ ~Emits(r, "Started")

\* P holds of what the callbacks that can run in s come to: the child watch of
\* every child that runs, the restart timer and the direct-auth timer
CallbacksFrom(s, P(_)) ==
    /\ \A pid \in LivePids(s), status \in Statuses : P(ExitBody(s, pid, status))
    /\ s.restart_sources > 0 => P(RestartBody(s, TRUE))
    /\ s.direct_auth_sources > 0 =>
           \A outcome \in AgentOutcomes : P(DirectAuthBody(s, outcome, "abc123", TRUE))

\* a handler that has emitted Stopped as its last state leaves the service so
\* that the callback that runs next, with no request in between, is quiet
StaysStopped(r) ==
    (LastState(r) = "Stopped" /\ r.loop_running) => CallbacksFrom(Fresh(r), Quiet)

\* C34: after Stopped has been emitted, by Disconnect, by SetFailure or by a
\* callback that gives up, the callbacks of the service start no tunnel, run no
\* auth-dialog and emit neither Starting nor Started for as long as no Connect,
\* ConnectInteractive or NewSecrets is received.
C34Claim ==
    loop_running =>
        /\ StaysStopped(DisconnectBody(Self))
        /\ LivePids(Self) # {} => StaysStopped(SetFailureBody(Self))
        /\ EveryCallback(StaysStopped)

\* ---------------------------------------------------------------- C35
\* C35 (a property of SpecVisible): while the state emitted last is Started,
\* self.proc tracks a child that runs; SetIp4Config emits Started only while a
\* child is tracked, and the exit handler of the tracked child emits Starting
\* or Stopped before it returns.
C35Claim ==
    /\ nm_state = "Started" => proc # 0
    /\ (loop_running /\ proc # 0) =>
           \A status \in ExitForms :
               LastState(ExitBody(Self, proc, status)) \in {"Starting", "Stopped"}

\* ---------------------------------------------------------------- C36
\* an exit that is no auth failure
Transient == [kind |-> "exited", val |-> 1]

\* r is what an accepted connect request has come to: the tunnel it starts, at
\* once or when the direct auth it schedules brings a cookie, runs with
\* _disconnect_requested false, and a transient exit of it adds the restart timer
FlagClearedFor(r) ==
    LET r2 == DirectAuthBody(Fresh(r), "cookie", "abc123", TRUE)
        r3 == ExitBody(Fresh(r2), r2.proc, Transient)
    IN  /\ r.launched # << >> => ~r.disconnect_requested
        /\ (r.launched = << >> /\ r.direct_auth_sources > 0
               /\ r2.launched # << >> /\ ~r2.reconnection_pending) =>
               /\ ~r2.disconnect_requested
               /\ Schedules(r3, "restart_sources", RestartDelay)

\* C36: every Connect or ConnectInteractive that is accepted clears
\* _disconnect_requested before a tunnel is started for it, also when it brings
\* no cookie and the tunnel is started by the direct auth: a transient exit of
\* that tunnel is restarted.
C36Claim ==
    loop_running =>
        \A c \in Connections :
            LET r1 == ConnectBody(Self, c, TRUE)
                r2 == ConnectInteractiveBody(Self, c, TRUE)
            IN  /\ r1.raised = "" => FlagClearedFor(r1)
                /\ r2.raised = "" => FlagClearedFor(r2)

\* ---------------------------------------------------------------- C37
\* C37: when the auth-dialog of a pending reconnection returns the cookie that
\* openconnect rejected last, the direct auth starts no tunnel with it and counts
\* the run as a failed attempt: it schedules the retry, or gives up at the bound.
C37Claim ==
    (loop_running /\ direct_auth_sources > 0 /\ reconnection_pending
        /\ last_failed_cookie # NoneStr) =>
        LET r == DirectAuthBody(Self, "cookie", last_failed_cookie, TRUE)
        IN  /\ r.launched = << >>
            /\ RetriesOnce(r) \/ GaveUp(r)

\* ---------------------------------------------------------------- C38
\* The log records that carry data of a request or of the credentials: the
\* format of the record and the values formatted into it.
\* cmd of _start_openconnect, with DTLS disabled as by default
openconnect_cmd(l) ==
    <<"openconnect", "--no-dtls", "-C", l.cookie, "--protocol=pulse", "--script=helper",
      l.gateway>>

\* "Log command (but mask cookie value)"
safe_cmd(cmd) ==
    [i \in 1..Len(cmd) |-> IF i = 1 \/ cmd[i - 1] # "-C" THEN cmd[i] ELSE "***"]

Executing(l) == <<"Executing: %s", safe_cmd(openconnect_cmd(l))>>

\* the first record Connect, ConnectInteractive and NewSecrets write: the
\* connection dict they were given, secrets and all
ConnectLogged(connection) == <<"Connect called with connection: %s", connection>>
ConnectInteractiveLogged(connection) ==
    <<"ConnectInteractive called with connection: %s", connection>>
NewSecretsLogged(connection) == <<"NewSecrets called with: %s", connection>>

\* the records of these kinds a handler has written when it has come to r
ExecutingLogged(r) == [i \in 1..Len(r.launched) |-> Executing(r.launched[i])]

\* the requests that differ from c in the value of the cookie only, and are
\* handled on the same path: the cookie is given and was not rejected last
SameButCookie(c) ==
    {d \in Connections : d.gateway = c.gateway /\ d.cookie # NoneStr
                             /\ d.cookie # last_failed_cookie}

\* C38: the value of a cookie reaches no log record: where two requests, or two
\* results of the auth-dialog, differ in the value of the cookie only, the
\* records Connect, ConnectInteractive, NewSecrets and _launch_direct_auth write
\* for the one and for the other are the same.
C38Claim ==
    loop_running =>
        LET me == Self
        IN  /\ \A c \in Connections : \A d \in SameButCookie(c) :
                   (c.cookie # NoneStr /\ c.cookie # last_failed_cookie) =>
                       /\ ExecutingLogged(ConnectBody(me, c, TRUE)) =
                              ExecutingLogged(ConnectBody(me, d, TRUE))
                       /\ ExecutingLogged(NewSecretsBody(me, c, TRUE)) =
                              ExecutingLogged(NewSecretsBody(me, d, TRUE))
                       /\ ConnectLogged(c) = ConnectLogged(d)
                       /\ ConnectInteractiveLogged(c) = ConnectInteractiveLogged(d)
                       /\ NewSecretsLogged(c) = NewSecretsLogged(d)
            /\ direct_auth_sources > 0 =>
                   \A c, d \in Cookies :
                       ExecutingLogged(DirectAuthBody(me, "cookie", c, TRUE)) =
                           ExecutingLogged(DirectAuthBody(me, "cookie", d, TRUE))

\* ---------------------------------------------------------------- C39
\* the handler has started the tunnel and left no pending connection behind
PendingCleared(r) == (r.launched # << >> /\ r.proc # 0 /\ r.raised = "") =>
                         r.pending_connection = << >>

\* C39: when the cookie for the stored pending connection arrives, by NewSecrets
\* or from the auth-dialog of the direct auth, and the tunnel is started, the
\* handler leaves self.pending_connection None.
C39Claim ==
    (loop_running /\ pending_connection # << >>) =>
        \A c \in Cookies :
            /\ PendingCleared(
                   NewSecretsBody(Self, [gateway |-> NoGateway, cookie |-> c], TRUE))
            /\ (direct_auth_sources > 0 /\ reconnection_pending) =>
                   LET r == DirectAuthBody(Self, "cookie", c, TRUE)
                   IN  ~r.reconnection_pending => PendingCleared(r)

\* ---------------------------------------------------------------- C40
\* the handler has refused the request before it got to Popen, and has left
\* every field of the object as it was in s
RefusedUnchanged(s, r) ==
    (r.raised = "LaunchFailedError" /\ r.launched = << >>) =>
        r = [s EXCEPT !.raised = "LaunchFailedError"]

\* C40: a Connect or ConnectInteractive that is refused with LaunchFailedError
\* for a missing gateway or a missing cookie, while a pending connection is
\* stored, leaves every field of the object as it was: pending_connection,
\* gateway, cookie, the flags and the counters.
C40Claim ==
    (loop_running /\ pending_connection # << >>) =>
        \A c \in Offers :
            /\ RefusedUnchanged(Self, ConnectBody(Self, c, TRUE))
            /\ RefusedUnchanged(Self, ConnectInteractiveBody(Self, c, TRUE))

====
